---- MODULE Spec2Model ----
(***************************************************************************)
(* A model of hichew's optimal-parameter search (src/src/utils.py and      *)
(* src/src/api.py): the noise mask (get_noisy_stripes), the noise filter   *)
(* (whether_tad_noisy, calc_noisy_metric), the segmentation generators     *)
(* (produce_tads_segmentation, produce_boundaries_segmentation), the grid  *)
(* bisection (adjust_boundaries) and the coarse scan (find_global_optima). *)
(*                                                                         *)
(* The segmentation backends (lavaburst, cooltools) are external: their    *)
(* output is a nondeterministic input of the actions that call them.       *)
(* Python sequences are modelled as TLA+ sequences (1-based); positions    *)
(* and bin numbers keep Python's 0-based values.                           *)
(***************************************************************************)
EXTENDS Integers, Sequences, FiniteSets, TLC

(***************************************************************************)
(* Bounds of the model.                                                    *)
(***************************************************************************)
\* number of bins of the contact matrix (mtx.shape[0])
NBins == 10
\* largest number of runs of zero-row-sum bins in a matrix
MaxRuns == 2
\* largest number of blocks in a partition returned by the density oracle
MaxSegs == 3
\* Hi-C resolution (bp per bin) passed by the caller
Resolution == 2
\* max_intertad_size passed by the caller
MaxIntertadSize == 1
\* max_tad_size passed by the caller
MaxTadSize == 7

(***************************************************************************)
(* Program constants.                                                      *)
(***************************************************************************)
\* k=3 of produce_boundaries_segmentation: bad bins' margin, in bins
K == 3
\* the 1e10 of calc_noisy_metric, on the scale of SideMetricTable: a value
\* above every metric a stripe can give
BigMetric == 1000000000

Bins == 0 .. (NBins - 1)
\* the three supported tags and one that is none of them
Methods == {"armatus", "modularity", "insulation", "other"}
None == "None"

VARIABLES
    method,      \* the caller's method tag
    zero_rows,   \* the bins of the prepared matrix whose row-sum is 0
    stage,       \* how far the run has come
    filters,     \* filters[ch] of get_noisy_stripes: a sequence of <<bgn, end>>
    good_bins,   \* good_bins of get_noisy_stripes
    seg,         \* the last segmentation call: its input and what it returned
    ab,          \* the locals of adjust_boundaries
    go,          \* the locals of find_global_optima
    rf,          \* the locals of adjust_global_optima
    pl,          \* the locals of search_opt_gamma
    sw           \* the locals of search_opt_window

vars == <<method, zero_rows, stage, filters, good_bins, seg, ab, go, rf, pl, sw>>

(***************************************************************************)
(* Helpers: Python and numpy primitives.                                   *)
(***************************************************************************)
Min(S) == CHOOSE x \in S : \A y \in S : x <= y
Max(S) == CHOOSE x \in S : \A y \in S : x >= y
Abs(x) == IF x < 0 THEN -x ELSE x

RECURSIVE SortedSeq(_)
\* np.where(...)[0] of a bin set, sorted(...) of a set: ascending order
SortedSeq(S) ==
    IF S = {} THEN <<>> ELSE <<Min(S)>> \o SortedSeq(S \ {Min(S)})

RECURSIVE Insert(_, _)
Insert(x, s) ==
    IF s = <<>> THEN <<x>>
    ELSE IF x <= Head(s) THEN <<x>> \o s
    ELSE <<Head(s)>> \o Insert(x, Tail(s))

RECURSIVE Sorted(_)
\* sorted(metric_values)
Sorted(s) == IF s = <<>> THEN <<>> ELSE Insert(Head(s), Sorted(Tail(s)))

\* s[mask]: the elements of s at the positions of idx
Take(s, idx) == [j \in 1 .. Len(idx) |-> s[idx[j]]]

\* number of maximal runs of consecutive bins in Z
NumRuns(Z) == Cardinality({b \in Z : (b - 1) \notin Z})

(***************************************************************************)
(* get_noisy_stripes, lines 466-499.  The matrix preparation (lines        *)
(* 456-464) only decides which rows sum to zero: that set is the input.    *)
(***************************************************************************)
\* v_tmp[-1].append(x)
AppendToLast(v_tmp, x) ==
    [v_tmp EXCEPT ![Len(v_tmp)] = Append(v_tmp[Len(v_tmp)], x)]

RECURSIVE StripeLoop(_, _, _, _)
\* for i in range(1, len(v) - 1): position p of the 1-based v is Python's
\* v[p - 1], so the loop visits p = 2 .. Len(v) - 1
StripeLoop(v, p, v_prev, v_tmp) ==
    IF p > Len(v) - 1 THEN AppendToLast(v_tmp, v_prev)
    ELSE IF v[p] - v_prev = 1 THEN StripeLoop(v, p + 1, v[p], v_tmp)
    ELSE StripeLoop(v, p + 1, v[p],
                    Append(AppendToLast(v_tmp, v_prev), <<v[p]>>))

\* filt = v_tmp[v_tmp[:, 1] - v_tmp[:, 0] >= 0]
WidthFilter(v_tmp) == SelectSeq(v_tmp, LAMBDA r : r[2] - r[1] >= 0)

\* lines 483-490: genomic coordinates for insulation, bin numbers otherwise
StripeCoords(filt, m, resolution) ==
    IF m = "insulation"
    THEN [j \in 1 .. Len(filt) |->
            <<filt[j][1] * resolution, filt[j][2] * resolution + resolution>>]
    ELSE filt

\* the slice of good_bins one stripe sets to False, lines 494-497:
\* good_bins[lo:hi] in Python's half-open slices
SliceLo(stripe, m, resolution) ==
    IF m = "insulation" THEN stripe[1] \div resolution ELSE stripe[1]

SliceHiNoPlusOne(stripe, m, resolution) ==
    IF m = "insulation" THEN stripe[2] \div resolution ELSE stripe[2]

SliceHi(stripe, m, resolution) ==
    IF m = "insulation" THEN stripe[2] \div resolution ELSE stripe[2] + 1

RECURSIVE MaskStripes(_, _, _, _, _)
\* for stripe in filters[ch]: good_bins[lo:hi] = False
MaskStripes(mask, fs, j, m, resolution) ==
    IF j > Len(fs) THEN mask
    ELSE MaskStripes(
            [i \in DOMAIN mask |->
                IF /\ SliceLo(fs[j], m, resolution) <= i
                   /\ i < SliceHi(fs[j], m, resolution)
                THEN FALSE ELSE mask[i]],
            fs, j + 1, m, resolution)

\* the whole function: v[0] raises IndexError when no row sums to zero
GetNoisyStripesResult(zero, m, resolution) ==
    LET v == SortedSeq(zero)
    IN  IF Len(v) = 0
        THEN [status |-> "IndexError", filters |-> <<>>,
              good_bins |-> [i \in Bins |-> TRUE]]
        ELSE LET v_tmp == StripeLoop(v, 2, v[1], << <<v[1]>> >>)
                 fs == StripeCoords(WidthFilter(v_tmp), m, resolution)
             IN  [status |-> "ok", filters |-> fs,
                  good_bins |->
                      MaskStripes([i \in Bins |-> TRUE], fs, 1, m, resolution)]

(***************************************************************************)
(* whether_tad_noisy, lines 502-525.                                       *)
(***************************************************************************)
\* lines 511-516: the stripe, widened by resolution * k for insulation only
ExpandedStripe(f, m, resolution, k) ==
    IF m = "insulation"
    THEN <<f[1] - resolution * k, f[2] + resolution * k>>
    ELSE f

StripeHitsNoWidthTest(x, bgn_f_new, end_f_new) ==
    \/ x[1] <= end_f_new /\ x[1] >= bgn_f_new
    \/ x[2] <= end_f_new /\ x[2] >= bgn_f_new
    \/ x[2] <= end_f_new /\ x[1] >= bgn_f_new
    \/ x[1] <= bgn_f_new /\ x[2] >= end_f_new

\* the four tests of lines 517-524, each returning True
StripeHits(x, bgn_f_new, end_f_new) ==
    \/ x[1] <= end_f_new /\ x[1] >= bgn_f_new
    \/ x[2] <= end_f_new /\ x[2] >= bgn_f_new
    \/ x[2] <= end_f_new /\ x[1] >= bgn_f_new
    \/ x[1] <= bgn_f_new /\ x[2] >= end_f_new /\ end_f_new - bgn_f_new # 0

RECURSIVE NoisyFrom(_, _, _, _, _, _)
\* for bgn_f, end_f in filters[ch]: ... return True; after the loop, False
NoisyFrom(j, x, fs, m, resolution, k) ==
    IF j > Len(fs) THEN FALSE
    ELSE LET e == ExpandedStripe(fs[j], m, resolution, k)
         IN  IF StripeHits(x, e[1], e[2]) THEN TRUE
             ELSE NoisyFrom(j + 1, x, fs, m, resolution, k)

whether_tad_noisy(x, fs, m, resolution, k) ==
    NoisyFrom(1, x, fs, m, resolution, k)

(***************************************************************************)
(* calc_noisy_metric, lines 528-569.                                       *)
(***************************************************************************)
\* np.argmin of a non-empty sequence: the first position of the minimum
ArgMin(s) == Min({i \in 1 .. Len(s) : \A j \in 1 .. Len(s) : s[i] <= s[j]})

\* lines 543-547 with the first stripe ending at or before x[0] taken
LeftStripeFirst(x, fs) ==
    LET ends == [j \in 1 .. Len(fs) |-> fs[j][2]]
        sel  == SelectSeq(ends, LAMBDA e : x[1] - e >= 0)
    IN  IF sel = <<>> THEN <<>>
        ELSE fs[Min({j \in 1 .. Len(fs) : ends[j] = sel[1]})]

\* lines 543-547: <<>> is np.array([]) of the except branch (np.argmin of
\* an empty array raises).  The position found in the selected ends is
\* used as a position in all the ends.
LeftStripe(x, fs) ==
    LET ends == [j \in 1 .. Len(fs) |-> fs[j][2]]
        sel  == SelectSeq(ends, LAMBDA e : x[1] - e >= 0)
    IN  IF sel = <<>> THEN <<>>
        ELSE LET val == ends[ArgMin([j \in 1 .. Len(sel) |-> x[1] - sel[j]])]
             IN  fs[Min({j \in 1 .. Len(fs) : ends[j] = val})]

\* lines 548-552: <<>> when no stripe starts at or after x[1] ([0] raises)
RightStripe(x, fs) ==
    LET starts == [j \in 1 .. Len(fs) |-> fs[j][1]]
        sel    == SelectSeq(starts, LAMBDA s : s - x[2] >= 0)
    IN  IF sel = <<>> THEN <<>>
        ELSE fs[Min({j \in 1 .. Len(fs) : starts[j] = sel[1]})]

\* round(10^6 * ln(gap)^2 * ln(length)) for gap, length in 1 .. 12: the
\* float64 value of lines 557 and 564 in fixed point.  On these arguments
\* every comparison the program makes of these values (their order, and
\* metric > (h1 + h2) / 2) has the same outcome on the table as in float64,
\* except for triples of lengths l, 2l, 4l at one gap, whose sum exceeds 12.
SideMetricTable ==
    <<
       <<0, 0, 0, 0, 0, 0, 0, 0, 0, 0, 0, 0>>,
       <<0, 333025, 527832, 666049, 773259, 860856, 934918, 999074, 1055663, 1106284, 1152076, 1193881>>,
       <<0, 836593, 1325969, 1673187, 1942509, 2162562, 2348614, 2509780, 2651938, 2779103, 2894137, 2999155>>,
       <<0, 1332099, 2111326, 2664197, 3093037, 3443425, 3739674, 3996296, 4222653, 4425136, 4608304, 4775524>>,
       <<0, 1795452, 2845725, 3590905, 4168912, 4641177, 5040472, 5386357, 5691450, 5964364, 6211245, 6436630>>,
       <<0, 2225281, 3526987, 4450562, 5166943, 5752268, 6247154, 6675843, 7053974, 7392224, 7698208, 7977549>>,
       <<0, 2624648, 4159968, 5249296, 6094243, 6784616, 7368318, 7873943, 8319937, 8718891, 9079789, 9409264>>,
       <<0, 2997222, 4750484, 5994444, 6959334, 7747706, 8414266, 8991666, 9500969, 9956556, 10368684, 10744928>>,
       <<0, 3346373, 5303876, 6692746, 7770038, 8650249, 9394457, 10039119, 10607752, 11116411, 11576549, 11996622>>,
       <<0, 3674996, 5824730, 7349991, 8533076, 9499726, 10317017, 11024987, 11649461, 12208072, 12713396, 13174722>>,
       <<0, 3985528, 6316913, 7971056, 9254110, 10302441, 11188792, 11956585, 12633825, 13239638, 13787662, 14287969>>,
       <<0, 4280018, 6783668, 8560036, 9937895, 11063687, 12015530, 12840055, 13567337, 14217913, 14806430, 15343705>>
    >>

SideMetric(gap, length) == SideMetricTable[gap][length]

\* lines 553-567, method # 'insulation'
StripeMetric(x, fs) ==
    LET left_stripe  == LeftStripe(x, fs)
        right_stripe == RightStripe(x, fs)
        left_side_metric ==
            IF Len(left_stripe) # 0
            THEN SideMetric(x[1] - left_stripe[2], x[2] - x[1])
            ELSE BigMetric
        right_side_metric ==
            IF Len(right_stripe) # 0
            THEN SideMetric(right_stripe[1] - x[2], x[2] - x[1])
            ELSE BigMetric
    IN  Min({left_side_metric, right_side_metric})

\* -1 is the hard-reject value; 1 (insulation) is 1.0 on the table's scale
calc_noisy_metric(x, fs, m, resolution, k) ==
    IF whether_tad_noisy(x, fs, m, resolution, k) THEN -1
    ELSE IF m # "insulation" THEN StripeMetric(x, fs)
    ELSE 1000000

(***************************************************************************)
(* produce_tads_segmentation, lines 146-178.                               *)
(***************************************************************************)
\* lines 160-162: mask = (v > max_intertad_size) & isfinite(v) & (v < max_tad_size)
SizeMaskLowerInclusive(s, mis, mts) == (s[2] - s[1] >= mis) /\ (s[2] - s[1] < mts)

SizeMask(s, mis, mts) == (s[2] - s[1] > mis) /\ (s[2] - s[1] < mts)

\* line 168: the sum of (end - bgn + 1) over the stripes; noise_freq is this
\* sum over nbins
NoiseSum(fs) ==
    LET RECURSIVE Sum(_)
        Sum(j) == IF j > Len(fs) THEN 0 ELSE (fs[j][2] - fs[j][1] + 1) + Sum(j + 1)
    IN  Sum(1)

\* int(len(hist_arr) * noise_freq): the float product truncates to the exact
\* quotient for the sizes of this model
NoiseIndex(hist_arr, fs, nbins) == (Len(hist_arr) * NoiseSum(fs)) \div nbins

\* segments[metric_values > thresh], with thresh = (h1 + h2) / 2
AboveThreshZero(segments, metric_values, h1, h2) ==
    Take(segments, SortedSeq({j \in 1 .. Len(segments) : metric_values[j] > 0}))

AboveThresh(segments, metric_values, h1, h2) ==
    Take(segments,
         SortedSeq({j \in 1 .. Len(segments) : 2 * metric_values[j] > h1 + h2}))

\* what one call returns, with the intermediate values the claims speak of.
\*   oracle   model.optimal_segmentation() of line 159
\*   kind     "None" for the bare return of line 151, "array" otherwise
\*   path     "thresh" for the return of line 176, "except" for line 178
\*   segments the size-bounded candidates (line 162)
produce_tads_segmentation(oracle, fs, m, mis, mts, nbins) ==
    IF m \notin {"modularity", "armatus"}
    THEN [kind |-> None, path |-> "unsupported", oracle |-> oracle,
          segments |-> <<>>, metric_values |-> <<>>, hist_arr |-> <<>>,
          ret |-> <<>>]
    ELSE
    LET segments == SelectSeq(oracle, LAMBDA s : SizeMask(s, mis, mts))
        metric_values ==
            [j \in 1 .. Len(segments) |->
                calc_noisy_metric(segments[j], fs, m, 0, 0)]
        hist_arr == SelectSeq(Sorted(metric_values), LAMBDA h : h > 0)
        idx == NoiseIndex(hist_arr, fs, nbins)
        \* hist_arr[:idx][-1] raises on an empty slice, hist_arr[idx] past the end
        raises == (idx = 0) \/ (idx >= Len(hist_arr))
    IN  IF raises
        THEN [kind |-> "array", path |-> "except", oracle |-> oracle,
              segments |-> segments, metric_values |-> metric_values,
              hist_arr |-> hist_arr, ret |-> segments]
        ELSE [kind |-> "array", path |-> "thresh", oracle |-> oracle,
              segments |-> segments, metric_values |-> metric_values,
              hist_arr |-> hist_arr,
              ret |-> AboveThresh(segments, metric_values,
                                  hist_arr[idx], hist_arr[idx + 1])]

(***************************************************************************)
(* produce_boundaries_segmentation, lines 94-119: the insulation           *)
(* generator keeps the boundaries whose metric exceeds thresh = 0.         *)
(***************************************************************************)
produce_boundaries_segmentation(boundaries_coords, fs, m, resolution, k) ==
    LET metric_values ==
            [j \in 1 .. Len(boundaries_coords) |->
                calc_noisy_metric(boundaries_coords[j], fs, m, resolution, k)]
    IN  [kind |-> "array", path |-> "zero", oracle |-> boundaries_coords,
         segments |-> boundaries_coords, metric_values |-> metric_values,
         hist_arr |-> <<>>,
         ret |-> Take(boundaries_coords,
                      SortedSeq({j \in 1 .. Len(boundaries_coords) :
                                    metric_values[j] > 0}))]

(***************************************************************************)
(* The external backends.                                                  *)
(***************************************************************************)
\* lavaburst's optimal_segmentation: a partition of the bins 0 .. nbins into
\* contiguous blocks <<start, end>>, end exclusive
PartitionOf(cuts, nbins) ==
    LET pts == SortedSeq(cuts \cup {0, nbins})
    IN  [j \in 1 .. (Len(pts) - 1) |-> <<pts[j], pts[j + 1]>>]

OraclePartitions ==
    {PartitionOf(cuts, NBins) :
        cuts \in {c \in SUBSET (1 .. (NBins - 1)) : Cardinality(c) <= MaxSegs - 1}}

\* cooltools' boundaries with a non-null strength: bins, as <<start, end>> in
\* genomic coordinates
OracleBoundaries ==
    {[j \in 1 .. Len(SortedSeq(bs)) |->
        <<SortedSeq(bs)[j] * Resolution, SortedSeq(bs)[j] * Resolution + Resolution>>] :
        bs \in {b \in SUBSET Bins : Cardinality(b) <= MaxSegs - 1}}

(***************************************************************************)
(* The state machine of one chromosome: the noise mask, then segmentation  *)
(* calls on its output.                                                    *)
(***************************************************************************)
NoSeg == [kind |-> None, path |-> "none", oracle |-> <<>>, segments |-> <<>>,
          metric_values |-> <<>>, hist_arr |-> <<>>, ret |-> <<>>]
NoAB == [pc |-> "idle", error |-> ""]
NoGO == [pc |-> "idle", opt_gamma |-> -1, local_optimas |-> <<>>]
NoRF == [pc |-> "idle"]
NoPL == [pc |-> "idle", error |-> ""]
NoSW == [pc |-> "idle"]

ZeroSets == {Z \in SUBSET Bins : NumRuns(Z) <= MaxRuns}

Init ==
    /\ method \in Methods
    /\ zero_rows \in ZeroSets
    /\ stage = "start"
    /\ filters = <<>>
    /\ good_bins = [i \in Bins |-> TRUE]
    /\ seg = NoSeg
    /\ ab = NoAB
    /\ go = NoGO
    /\ rf = NoRF
    /\ pl = NoPL
    /\ sw = NoSW

\* api.py line 303 (line 153 for insulation)
GetNoisyStripes ==
    /\ stage = "start"
    /\ LET r == GetNoisyStripesResult(zero_rows, method, Resolution)
       IN  /\ stage' = IF r.status = "ok" THEN "stripes" ELSE "raised"
           /\ filters' = r.filters
           /\ good_bins' = r.good_bins
    /\ UNCHANGED <<method, zero_rows, seg, ab, go, rf, pl, sw>>

\* one call of produce_tads_segmentation by the density-score pipeline
ProduceTadsSegmentation ==
    /\ stage = "stripes"
    /\ method # "insulation"
    /\ \E oracle \in OraclePartitions :
          seg' = produce_tads_segmentation(oracle, filters, method,
                                           MaxIntertadSize, MaxTadSize, NBins)
    /\ stage' = "segmented"
    /\ UNCHANGED <<method, zero_rows, filters, good_bins, ab, go, rf, pl, sw>>

\* one call of produce_boundaries_segmentation by the insulation pipeline
ProduceBoundariesSegmentation ==
    /\ stage = "stripes"
    /\ method = "insulation"
    /\ \E coords \in OracleBoundaries :
          seg' = produce_boundaries_segmentation(coords, filters, method,
                                                 Resolution, K)
    /\ stage' = "segmented"
    /\ UNCHANGED <<method, zero_rows, filters, good_bins, ab, go, rf, pl, sw>>

Next ==
    \/ GetNoisyStripes
    \/ ProduceTadsSegmentation
    \/ ProduceBoundariesSegmentation

Spec == Init /\ [][Next]_vars

(***************************************************************************)
(* adjust_boundaries, lines 238-298.                                       *)
(*                                                                         *)
(* Grid values are integers in units of the last decimal digit of          *)
(* start_step: a step is [decimal, k], k units long.  [decimal |-> FALSE,  *)
(* k |-> 1] is start_step = 1; a decimal step with k = 1 is 0.1, 0.01, ..; *)
(* with k = 2 it is 0.2, 0.02, ...  On these units the rounding of the     *)
(* grid at line 257 leaves every value as it is.                           *)
(***************************************************************************)
\* largest number of values in a grid
MaxGrid == 6
\* largest number of units in a step
MaxStepUnits == 2

\* the first value of a grid: only its parity matters (rounding half to even)
GridStarts == {0, 1}
\* the numbers of segments the generator returns
CountValues == 0 .. 2
Steps == [decimal : BOOLEAN, k : 1 .. MaxStepUnits]
Sides == {"upper", "lower"}

\* np.arange(first, first + n * k, k) in units
GridOf(first, n, k) == [j \in 1 .. n |-> first + (j - 1) * k]

\* the values of a grid of n values, and the one np.arange can add to it
GridValues(first, n, k) == {first + j * k : j \in 0 .. n}

\* np.argwhere(grid == v) / np.where(grid == v)[0]: the 0-based positions
Positions(grid, v) == {j - 1 : j \in {i \in 1 .. Len(grid) : grid[i] = v}}

\* round(s2 / 2) and round(s2 / 2, ndigits) in units, for the sum s2 of two
\* values.  An exact half goes to the even neighbour for start_step = 1; for
\* a decimal step the float product decides, so either neighbour can come out.
RoundedHalvesAlwaysUp(s2, step) ==
    IF s2 % 2 = 0 THEN {s2 \div 2} ELSE {(s2 + 1) \div 2}

RoundedHalves(s2, step) ==
    IF s2 % 2 = 0 THEN {s2 \div 2}
    ELSE IF step.decimal THEN {(s2 - 1) \div 2, (s2 + 1) \div 2}
    ELSE {IF ((s2 - 1) \div 2) % 2 = 0 THEN (s2 - 1) \div 2 ELSE (s2 + 1) \div 2}

\* str(start_step).split('.')[1] of lines 257, 276, 283 raises IndexError for
\* an integer step other than 1
StepHasNoDecimals(step) == ~step.decimal /\ step.k # 1

\* lines 255-264.  returned is "grid" when adj_grid (ret) was returned and
\* "None" after the bare return of line 296; run and first_ret say whether
\* this is a second call on the grid the first one returned; delta_before is
\* the value delta had when the last pass of the loop began.
EnterAdjustBoundaries(grid, step, type, counts, run, first_ret) ==
    IF StepHasNoDecimals(step)
    THEN [pc |-> "raised", error |-> "IndexError", grid |-> grid, step |-> step,
          type |-> type, counts |-> counts, bound_1 |-> 0, bound_1_prev |-> 0,
          bound_2 |-> 0, delta |-> Len(grid), len_segments_prev |-> 0,
          is_begin |-> TRUE, probes |-> 0, returned |-> "", ret |-> <<>>,
          run |-> run, first_ret |-> first_ret, delta_before |-> Len(grid)]
    ELSE [pc |-> "loop", error |-> "", grid |-> grid, step |-> step,
          type |-> type, counts |-> counts,
          bound_1 |-> IF type = "upper" THEN grid[Len(grid)] ELSE grid[1],
          bound_1_prev |-> IF type = "upper" THEN grid[Len(grid)] ELSE grid[1],
          bound_2 |-> IF type = "upper" THEN grid[1] ELSE grid[Len(grid)],
          delta |-> Len(grid), len_segments_prev |-> 0, is_begin |-> TRUE,
          probes |-> 0, returned |-> "", ret |-> <<>>, run |-> run,
          first_ret |-> first_ret, delta_before |-> Len(grid)]

\* lines 267-285 without the assignment bound_2 = bound_1 of line 274
AfterProbeKeepsBound2(a, rounded) ==
    LET len_segments == a.counts[a.bound_1]
        len_segments_prev ==
            IF a.is_begin THEN len_segments ELSE a.len_segments_prev
    IN  IF len_segments # len_segments_prev
        THEN [a EXCEPT !.is_begin = FALSE,
                       !.len_segments_prev = len_segments_prev,
                       !.bound_1 = rounded,
                       !.probes = a.probes + 1]
        ELSE [a EXCEPT !.is_begin = FALSE,
                       !.len_segments_prev = len_segments,
                       !.bound_1_prev = a.bound_1,
                       !.bound_1 = rounded,
                       !.probes = a.probes + 1]

\* lines 267-285: the locals after the probe of bound_1 and the move of the
\* bounds to new_bound_1, before the index lookups of line 286
AfterProbe(a, rounded) ==
    LET len_segments == a.counts[a.bound_1]
        len_segments_prev ==
            IF a.is_begin THEN len_segments ELSE a.len_segments_prev
    IN  IF len_segments # len_segments_prev
        THEN [a EXCEPT !.is_begin = FALSE,
                       !.len_segments_prev = len_segments_prev,
                       !.bound_2 = a.bound_1,
                       !.bound_1 = rounded,
                       !.probes = a.probes + 1]
        ELSE [a EXCEPT !.is_begin = FALSE,
                       !.len_segments_prev = len_segments,
                       !.bound_1_prev = a.bound_1,
                       !.bound_1 = rounded,
                       !.probes = a.probes + 1]

\* the two values whose mean is rounded: bound_1 with bound_1_prev when the
\* count changed, bound_1 with bound_2 otherwise
ProbeSum(a) ==
    LET len_segments == a.counts[a.bound_1]
        len_segments_prev ==
            IF a.is_begin THEN len_segments ELSE a.len_segments_prev
    IN  IF len_segments # len_segments_prev
        THEN a.bound_1 + a.bound_1_prev
        ELSE a.bound_1 + a.bound_2

\* line 286: int(np.argwhere(...)) raises TypeError unless exactly one
\* position matches
LookupDelta(a) ==
    IF Cardinality(Positions(a.grid, a.bound_1)) = 1
          /\ Cardinality(Positions(a.grid, a.bound_2)) = 1
    THEN [a EXCEPT !.delta_before = a.delta,
                   !.delta =
            Abs((CHOOSE p \in Positions(a.grid, a.bound_1) : TRUE)
                - (CHOOSE p \in Positions(a.grid, a.bound_2) : TRUE))]
    ELSE [a EXCEPT !.pc = "raised", !.error = "TypeError"]

\* lines 288-298.  np.arange on floats can yield one value past its stop;
\* extra is that value's presence.  eps is below one unit of the grid.
ReturnAdjusted(a, extra) ==
    LET i == Min(Positions(a.grid, a.bound_1)) + 1
        n == Len(a.grid)
        kept == IF a.type = "upper" THEN SubSeq(a.grid, 1, i)
                ELSE SubSeq(a.grid, i, n)
        adj_grid == IF extra THEN Append(kept, kept[Len(kept)] + a.step.k)
                    ELSE kept
    IN  IF adj_grid[Len(adj_grid)] - adj_grid[1] - a.step.k <= 0
            /\ a.type # "upper"
        THEN [a EXCEPT !.pc = "done", !.error = "collapsed", !.returned = None]
        ELSE [a EXCEPT !.pc = "done", !.returned = "grid", !.ret = adj_grid]

InitBisect ==
    /\ method = "armatus"
    /\ zero_rows = {}
    /\ stage = "bisect"
    /\ filters = <<>>
    /\ good_bins = [i \in Bins |-> TRUE]
    /\ seg = NoSeg
    /\ go = NoGO
    /\ rf = NoRF
    /\ pl = NoPL
    /\ sw = NoSW
    /\ \E first \in GridStarts, n \in 1 .. MaxGrid, step \in Steps,
          type \in Sides :
          \E counts \in [GridValues(first, n, step.k) -> CountValues] :
             ab = EnterAdjustBoundaries(GridOf(first, n, step.k), step, type,
                                        counts, 1, <<>>)

\* one pass of the while loop
AdjustBoundariesProbe ==
    /\ ab.pc = "loop"
    /\ ab.delta > 1
    /\ \E rounded \in RoundedHalves(ProbeSum(ab), ab.step) :
          ab' = LookupDelta(AfterProbe(ab, rounded))
    /\ UNCHANGED <<method, zero_rows, stage, filters, good_bins, seg, go, rf, pl, sw>>

\* the loop is left and the grid is returned
AdjustBoundariesReturn ==
    /\ ab.pc = "loop"
    /\ ab.delta <= 1
    /\ \E extra \in BOOLEAN :
          /\ extra => ab.step.decimal
          /\ ab' = ReturnAdjusted(ab, extra)
    /\ UNCHANGED <<method, zero_rows, stage, filters, good_bins, seg, go, rf, pl, sw>>

\* adjust_boundaries is called again, for the same side, on the grid it returned
AdjustBoundariesAgain ==
    /\ ab.pc = "done"
    /\ ab.run = 1
    /\ ab.returned = "grid"
    /\ ab' = EnterAdjustBoundaries(ab.ret, ab.step, ab.type, ab.counts, 2, ab.ret)
    /\ UNCHANGED <<method, zero_rows, stage, filters, good_bins, seg, go, rf, pl, sw>>

NextBisect ==
    \/ AdjustBoundariesProbe
    \/ AdjustBoundariesReturn
    \/ AdjustBoundariesAgain

SpecBisect == InitBisect /\ [][NextBisect]_vars

(***************************************************************************)
(* find_global_optima, lines 301-372.                                      *)
(*                                                                         *)
(* A gamma is named by its 0-based position in new_grid.  A mean is the    *)
(* pair <<sum, count>> of the lengths it averages: count = 0 is NaN        *)
(* (np.mean of no segment).  expected / resolution is TargetSize.          *)
(***************************************************************************)
\* largest number of values in new_grid
MaxScan == 4
\* expected / resolution
TargetSize == 3

\* what produce_tads_segmentation can return for one gamma
ScanResults ==
    { <<>>,
      << <<0, 2>> >>, << <<0, 3>> >>, << <<0, 4>> >>,
      << <<0, 2>>, <<2, 4>> >>, << <<0, 2>>, <<2, 6>> >>,
      << <<0, 4>>, <<4, 8>> >> }

\* np.sum(segments[:, 1] - segments[:, 0]): 0 for no segment
SumLengths(segments) ==
    LET RECURSIVE Sum(_)
        Sum(j) == IF j > Len(segments) THEN 0
                  ELSE (segments[j][2] - segments[j][1]) + Sum(j + 1)
    IN  Sum(1)

\* np.mean(segments[:, 1] - segments[:, 0])
MeanLengths(segments) == <<SumLengths(segments), Len(segments)>>

IsNaN(m) == m[2] = 0

\* the sign of m - target
SignOff(m, target) ==
    IF m[1] > target * m[2] THEN 1 ELSE IF m[1] < target * m[2] THEN -1 ELSE 0

\* line 356: (m - target) * (m_prev - target) <= 0, False when either is NaN
Crosses(m, m_prev, target) ==
    /\ ~IsNaN(m)
    /\ ~IsNaN(m_prev)
    /\ SignOff(m, target) * SignOff(m_prev, target) <= 0

\* line 357: abs(m - target) <= abs(m_prev - target), for means that are not NaN
CloserOrEqual(m, m_prev, target) ==
    Abs(m[1] - target * m[2]) * m_prev[2] <= Abs(m_prev[1] - target * m_prev[2]) * m[2]

\* local_optimas[key] = value on a dict kept as a sequence of <<key, value>>
\* in insertion order: a key already present keeps its place
DictSet(d, key, value) ==
    IF \E p \in 1 .. Len(d) : d[p][1] = key
    THEN [p \in 1 .. Len(d) |-> IF d[p][1] = key THEN <<key, value>> ELSE d[p]]
    ELSE Append(d, <<key, value>>)

\* np.argmin([abs(x - target) for x in means]), 0-based: the first NaN when
\* there is one, the first minimum otherwise
ArgMinCloseness(means, target) ==
    IF \E p \in 1 .. Len(means) : IsNaN(means[p])
    THEN Min({p \in 1 .. Len(means) : IsNaN(means[p])}) - 1
    ELSE Min({p \in 1 .. Len(means) :
                \A q \in 1 .. Len(means) :
                    CloserOrEqual(means[p], means[q], target)}) - 1

MaxItemLast(d) ==
    d[Max({p \in 1 .. Len(d) : \A q \in 1 .. Len(d) : d[q][2] <= d[p][2]})][1]

\* max(local_optimas.items(), key=operator.itemgetter(1))[0]: the key of the
\* first item whose value no other exceeds
MaxItem(d) ==
    d[Min({p \in 1 .. Len(d) : \A q \in 1 .. Len(d) : d[q][2] <= d[p][2]})][1]

\* the rows df_tmp adds to df: <<bgn, end, gamma>> (method and ch are the
\* same on every row of one call)
Rows(segments, gamma) ==
    [j \in 1 .. Len(segments) |-> <<segments[j][1], segments[j][2], gamma>>]

\* lines 356-360
RegisterCrossing(d, gamma, m, cov, gamma_prev, m_prev, cov_prev, target) ==
    IF Crosses(m, m_prev, target)
    THEN IF CloserOrEqual(m, m_prev, target)
         THEN DictSet(d, gamma, cov)
         ELSE DictSet(d, gamma_prev, cov_prev)
    ELSE d

\* the locals of find_global_optima before line 320, for a grid of n values
EnterFindGlobalOptima(n) ==
    [pc |-> "start", n |-> n, i |-> 0, mean_tad_size_prev |-> <<0, 0>>,
     gamma_prev |-> 0, cov_prev |-> 0, local_optimas |-> <<>>,
     mean_tad_sizes |-> <<>>, covs |-> <<>>, df |-> <<>>,
     opt_gamma |-> -1]

\* lines 320-339
ScanFirst(g, segments_0) ==
    [g EXCEPT
        !.pc = "scan",
        !.i = 1,
        !.mean_tad_size_prev = MeanLengths(segments_0),
        !.gamma_prev = 0,
        !.cov_prev = SumLengths(segments_0),
        !.df = g.df \o Rows(segments_0, 0),
        !.mean_tad_sizes = <<MeanLengths(segments_0)>>,
        !.covs = <<SumLengths(segments_0)>>]

\* lines 342-364
ScanPass(g, segments) ==
    LET gamma == g.i
        mean_tad_size == MeanLengths(segments)
        cov == SumLengths(segments)
    IN  [g EXCEPT
            !.i = g.i + 1,
            !.mean_tad_sizes = Append(g.mean_tad_sizes, mean_tad_size),
            !.covs = Append(g.covs, cov),
            !.df = g.df \o Rows(segments, gamma),
            !.local_optimas =
                RegisterCrossing(g.local_optimas, gamma,
                    mean_tad_size, cov, g.gamma_prev,
                    g.mean_tad_size_prev, g.cov_prev, TargetSize),
            !.gamma_prev = gamma,
            !.cov_prev = cov,
            !.mean_tad_size_prev = mean_tad_size]

\* lines 366-372
ScanReturn(g) ==
    LET closest == ArgMinCloseness(g.mean_tad_sizes, TargetSize)
        local_optimas ==
            DictSet(g.local_optimas, closest, g.covs[closest + 1])
    IN  [g EXCEPT !.pc = "done",
                  !.local_optimas = local_optimas,
                  !.opt_gamma = MaxItem(local_optimas)]

InitOptima ==
    /\ method = "armatus"
    /\ zero_rows = {}
    /\ stage = "optima"
    /\ filters = <<>>
    /\ good_bins = [i \in Bins |-> TRUE]
    /\ seg = NoSeg
    /\ ab = NoAB
    /\ rf = NoRF
    /\ pl = NoPL
    /\ sw = NoSW
    /\ \E n \in 1 .. MaxScan : go = EnterFindGlobalOptima(n)

\* lines 320-339: the segmentation of new_grid[0]
FindGlobalOptimaFirst ==
    /\ go.pc = "start"
    /\ \E segments_0 \in ScanResults : go' = ScanFirst(go, segments_0)
    /\ UNCHANGED <<method, zero_rows, stage, filters, good_bins, seg, ab, rf, pl, sw>>

\* lines 341-364: one pass of the loop over new_grid[1:]
FindGlobalOptimaScan ==
    /\ go.pc = "scan"
    /\ go.i < go.n
    /\ \E segments \in ScanResults : go' = ScanPass(go, segments)
    /\ UNCHANGED <<method, zero_rows, stage, filters, good_bins, seg, ab, rf, pl, sw>>

\* lines 366-372: the closest grid point is registered and the optimum chosen
FindGlobalOptimaReturn ==
    /\ go.pc = "scan"
    /\ go.i = go.n
    /\ go' = ScanReturn(go)
    /\ UNCHANGED <<method, zero_rows, stage, filters, good_bins, seg, ab, rf, pl, sw>>

NextOptima ==
    \/ FindGlobalOptimaFirst
    \/ FindGlobalOptimaScan
    \/ FindGlobalOptimaReturn

SpecOptima == InitOptima /\ [][NextOptima]_vars

(***************************************************************************)
(* adjust_global_optima, lines 375-442.                                    *)
(*                                                                         *)
(* A gamma is an integer number of lattice units; start_step is Unit of    *)
(* them, so that MaxZoom divisions of the step by 10 stay on the lattice.  *)
(* The segmentation generator is a profile: a step function of gamma,      *)
(* given by its breakpoints and by the segmentation it returns on each     *)
(* piece.                                                                  *)
(***************************************************************************)
\* the number of zoom rounds the lattice resolves
MaxZoom == 2
\* lines 405, 414, 418, 427: step / 10
ZoomFactor == 10
\* start_step in lattice units
Unit == ZoomFactor ^ MaxZoom

\* where, relative to the coarse optimum, the generator can change its answer
BreakOffsets ==
    {-Unit, -(Unit \div 2), -(Unit \div ZoomFactor), -1, 0, 1, 2,
     Unit \div ZoomFactor, Unit \div 2, Unit}

\* what the generator can return on one piece
RefineResults ==
    { <<>>, << <<0, 2>> >>, << <<0, 3>> >>, << <<0, 4>> >> }

\* the profiles of at most three pieces
Profiles ==
    [breaks : {<<>>}, results : [1 .. 1 -> RefineResults]]
    \cup [breaks : {<<b>> : b \in BreakOffsets}, results : [1 .. 2 -> RefineResults]]
    \cup [breaks : {bc \in BreakOffsets \X BreakOffsets : bc[1] < bc[2]},
          results : [1 .. 3 -> RefineResults]]

\* produce_tads_segmentation(mtx, filters, gamma, ...) under a profile
SegAt(profile, gamma) ==
    profile.results[1 + Cardinality({j \in 1 .. Len(profile.breaks) :
                                        profile.breaks[j] <= gamma})]

\* abs(x - expected / resolution) of a mean x, as <<numerator, denominator>>;
\* NaN (denominator 0) for the mean of no segment
Deviation(m) == <<Abs(m[1] - TargetSize * m[2]), m[2]>>

SameDeviation(a, b) == a[1] * b[2] = b[1] * a[2]

\* abs(mts_cur - mts_prev) > eps: False when either is NaN.  eps (0.01 by
\* default) is below the difference of any two distinct deviations of the
\* model.
ExceedsEps(mts_cur, mts_prev) ==
    /\ ~IsNaN(mts_cur)
    /\ ~IsNaN(mts_prev)
    /\ ~SameDeviation(mts_cur, mts_prev)

\* np.arange(g0 - step, g0 + step, step / 10): 20 values, and g0 + step as
\* well when the float quotient passes 20 (extra)
RefineGrid(g0, step, extra) ==
    [j \in 1 .. (2 * ZoomFactor + (IF extra THEN 1 ELSE 0)) |->
        g0 - step + (j - 1) * (step \div ZoomFactor)]

\* lines 406-410 and 419-423
RefineMeans(profile, new_grid) ==
    [j \in 1 .. Len(new_grid) |-> MeanLengths(SegAt(profile, new_grid[j]))]

\* lines 412 and 425
RoundOptimum(profile, new_grid) ==
    new_grid[ArgMinCloseness(RefineMeans(profile, new_grid), TargetSize) + 1]

\* lines 413 and 426: np.min is NaN when a mean is NaN, and np.argmin is then
\* at a NaN
RoundDeviation(profile, new_grid) ==
    LET means == RefineMeans(profile, new_grid)
    IN  Deviation(means[ArgMinCloseness(means, TargetSize) + 1])

\* lines 398-404
EnterAdjustGlobalOptima(profile, opt_gamma, decimal, ch, df_concretized, opt_gammas) ==
    [pc |-> "start", profile |-> profile, opt_gamma |-> opt_gamma,
     decimal |-> decimal, ch |-> ch,
     mts_prev |-> Deviation(MeanLengths(SegAt(profile, opt_gamma))),
     mts_cur |-> <<0, 0>>, new_opt_gamma |-> opt_gamma, step |-> Unit,
     new_grid |-> <<>>, rounds |-> 0, best |-> <<>>,
     final_segments |-> <<>>,
     df_concretized |-> df_concretized, opt_gammas |-> opt_gammas]

\* one round: the grid around new_opt_gamma is sampled and the step divided
RefineRound(r, extra) ==
    LET new_grid == RefineGrid(r.new_opt_gamma, r.step, extra)
    IN  [r EXCEPT !.pc = "loop",
                  !.new_grid = new_grid,
                  !.new_opt_gamma = RoundOptimum(r.profile, new_grid),
                  !.mts_cur = RoundDeviation(r.profile, new_grid),
                  !.best = Append(r.best, RoundDeviation(r.profile, new_grid)),
                  !.step = r.step \div ZoomFactor,
                  !.rounds = r.rounds + 1]

RefineReturnForgetsOthers(r) ==
    LET segments == SegAt(r.profile, r.new_opt_gamma)
    IN  [r EXCEPT !.pc = "done",
                  !.final_segments = segments,
                  !.df_concretized =
                      [j \in 1 .. Len(segments) |->
                          <<segments[j][1], segments[j][2],
                            r.new_opt_gamma, r.ch>>],
                  !.opt_gammas = [c \in {r.ch} |-> r.new_opt_gamma]]

\* lines 429-442
RefineReturn(r) ==
    LET segments == SegAt(r.profile, r.new_opt_gamma)
    IN  [r EXCEPT !.pc = "done",
                  !.final_segments = segments,
                  !.df_concretized =
                      r.df_concretized \o
                          [j \in 1 .. Len(segments) |->
                              <<segments[j][1], segments[j][2],
                                r.new_opt_gamma, r.ch>>],
                  !.opt_gammas =
                      [c \in DOMAIN r.opt_gammas \cup {r.ch} |->
                          IF c = r.ch THEN r.new_opt_gamma ELSE r.opt_gammas[c]]]

InitRefine ==
    /\ method = "armatus"
    /\ zero_rows = {}
    /\ stage = "refine"
    /\ filters = <<>>
    /\ good_bins = [i \in Bins |-> TRUE]
    /\ seg = NoSeg
    /\ ab = NoAB
    /\ go = NoGO
    /\ pl = NoPL
    /\ sw = NoSW
    /\ \E profile \in Profiles, decimal \in BOOLEAN :
          rf = EnterAdjustGlobalOptima(profile, 0, decimal, 1, <<>>, <<>>)

\* lines 405-414: the first grid, at start_step / 10
AdjustGlobalOptimaFirst ==
    /\ rf.pc = "start"
    /\ \E extra \in BOOLEAN :
          /\ extra => rf.decimal
          /\ rf' = RefineRound(rf, extra)
    /\ UNCHANGED <<method, zero_rows, stage, filters, good_bins, seg, ab, go, pl, sw>>

\* lines 416-427: one pass of the while loop.  The lattice resolves MaxZoom
\* divisions of the step.
AdjustGlobalOptimaZoom ==
    /\ rf.pc = "loop"
    /\ ExceedsEps(rf.mts_cur, rf.mts_prev)
    /\ rf.step >= ZoomFactor
    /\ \E extra \in BOOLEAN :
          rf' = RefineRound([rf EXCEPT !.mts_prev = rf.mts_cur], extra)
    /\ UNCHANGED <<method, zero_rows, stage, filters, good_bins, seg, ab, go, pl, sw>>

\* lines 429-442: the loop is left, the final segmentation is recorded
AdjustGlobalOptimaReturn ==
    /\ rf.pc = "loop"
    /\ ~ExceedsEps(rf.mts_cur, rf.mts_prev)
    /\ rf' = RefineReturn(rf)
    /\ UNCHANGED <<method, zero_rows, stage, filters, good_bins, seg, ab, go, pl, sw>>

NextRefine ==
    \/ AdjustGlobalOptimaFirst
    \/ AdjustGlobalOptimaZoom
    \/ AdjustGlobalOptimaReturn

SpecRefine == InitRefine /\ [][NextRefine]_vars

(***************************************************************************)
(* calc_mean_tad_size, lines 13-71, and search_opt_window, api.py lines    *)
(* 118-267.  Insulation scores and boundary strengths are values of the    *)
(* external backend: they are carried as 0.                                *)
(***************************************************************************)
\* largest number of windows in the grid
MaxWindows == 3
\* api.py lines 165 and 197: the names the returned tuple is unpacked into
UnpackTargets == 3

\* the bins at which find_boundaries places boundaries, for one window
WindowBoundaryBins == {{}, {0, 3}, {0, 4}, {0, 5}, {1, 4, 9}}

\* the boundaries dataframe: <<start, end>> of each boundary
BoundariesAt(bs) ==
    [j \in 1 .. Len(SortedSeq(bs)) |->
        <<SortedSeq(bs)[j] * Resolution, SortedSeq(bs)[j] * Resolution + Resolution>>]

\* lines 30-38: the candidate between boundary j and j + 1 as
\* <<left_end, right_start, length>>
SelectTads(boundaries, resolution) ==
    [j \in 1 .. Max({Len(boundaries) - 1, 0}) |->
        <<boundaries[j][2], boundaries[j + 1][1],
          (boundaries[j + 1][1] - boundaries[j][2]) \div resolution>>]

\* lines 49-53: the size bounds, and no stripe inside the candidate
IsNormal(t, fs) ==
    \A p \in 1 .. Len(fs) : ~(fs[p][1] >= t[1] /\ fs[p][2] <= t[2])

SelectedLengths(boundaries, fs, mis, mts, resolution) ==
    LET select_tads == SelectTads(boundaries, resolution)
        kept == SortedSeq({j \in 1 .. Len(select_tads) :
                              /\ select_tads[j][3] > mis
                              /\ select_tads[j][3] < mts
                              /\ IsNormal(select_tads[j], fs)})
    IN  [i \in 1 .. Len(kept) |-> select_tads[kept[i]][3]]

SumSeq(q) ==
    LET RECURSIVE Sum(_)
        Sum(j) == IF j > Len(q) THEN 0 ELSE q[j] + Sum(j + 1)
    IN  Sum(1)

\* lines 55-71: the six returned values; a NaN mean becomes 0 (<<0, 1>>)
calc_mean_tad_size(boundaries, fs, mis, mts, resolution) ==
    LET lengths == SelectedLengths(boundaries, fs, mis, mts, resolution)
        mean_tad == IF Len(lengths) = 0 THEN <<0, 1>>
                    ELSE <<SumSeq(lengths), Len(lengths)>>
        sum_cov == SumSeq(lengths)
        mean_ins == 0
        mean_bsc == 0
        full_ins == [j \in 1 .. Len(boundaries) |-> 0]
        full_bsc == [j \in 1 .. Len(boundaries) |-> 0]
    IN  <<mean_tad, sum_cov, mean_ins, mean_bsc, full_ins, full_bsc>>

\* a, b, c = values: ValueError unless there are as many values as names
Unpack(values, targets) ==
    IF Len(values) = targets THEN "ok" ELSE "ValueError"

\* the mean TAD size search_opt_window computes for the window at position j
WindowMean(bins, fs) ==
    calc_mean_tad_size(
        produce_boundaries_segmentation(BoundariesAt(bins), fs, "insulation",
                                        Resolution, K).ret,
        fs, MaxIntertadSize, MaxTadSize, Resolution)[1]

InitWindow ==
    /\ method = "insulation"
    /\ zero_rows \in {Z \in ZeroSets : Cardinality(Z) <= 1}
    /\ stage = "window"
    /\ filters = <<>>
    /\ good_bins = [i \in Bins |-> TRUE]
    /\ seg = NoSeg
    /\ ab = NoAB
    /\ go = NoGO
    /\ rf = NoRF
    /\ pl = NoPL
    /\ \E n \in 1 .. MaxWindows :
          \E bins \in [1 .. n -> WindowBoundaryBins] :
             sw = [pc |-> "start", error |-> "", bins |-> bins,
                   mean_tad_sizes |-> <<>>, reached |-> <<>>,
                   is_exp_tad_size_reached |-> FALSE]

\* api.py line 153
SearchOptWindowStripes ==
    /\ sw.pc = "start"
    /\ LET r == GetNoisyStripesResult(zero_rows, method, Resolution)
       IN  /\ filters' = r.filters
           /\ good_bins' = r.good_bins
           /\ sw' = IF r.status = "ok"
                    THEN [sw EXCEPT !.pc = "stripes"]
                    ELSE [sw EXCEPT !.pc = "raised", !.error = r.status]
    /\ UNCHANGED <<method, zero_rows, stage, seg, ab, go, rf, pl>>

\* api.py lines 155-166: the boundaries of grid[0] and their statistics
SearchOptWindowFirst ==
    /\ sw.pc = "stripes"
    /\ LET r == produce_boundaries_segmentation(BoundariesAt(sw.bins[1]),
                    filters, method, Resolution, K)
           values == calc_mean_tad_size(r.ret, filters, MaxIntertadSize,
                                        MaxTadSize, Resolution)
       IN  /\ seg' = r
           /\ sw' = IF Unpack(values, UnpackTargets) = "ok"
                    THEN [sw EXCEPT !.pc = "scan",
                                    !.mean_tad_sizes = <<values[1]>>]
                    ELSE [sw EXCEPT !.pc = "raised", !.error = "ValueError"]
    /\ UNCHANGED <<method, zero_rows, stage, filters, good_bins, ab, go, rf, pl>>

NextWindow ==
    \/ SearchOptWindowStripes
    \/ SearchOptWindowFirst

SpecWindow == InitWindow /\ [][NextWindow]_vars

(***************************************************************************)
(* whether_to_expand, lines 181-235, and search_opt_gamma, api.py lines    *)
(* 270-330.                                                                *)
(*                                                                         *)
(* search_opt_gamma is followed call by call; each call is one action that *)
(* runs the callee to its end.  The grid holds integers and start_step is  *)
(* 1; the gamma of a table row is in lattice units (Unit per step).  The   *)
(* generator of a chromosome is a profile.                                 *)
(***************************************************************************)
\* the number of values in the grid given to search_opt_gamma
GridLen == 8
\* lines 195-196: the checked ranges are 10 steps long
ExpandSteps == 10

\* chrms
Chrms == <<"chr2L", "chr2R">>

StartStep == [decimal |-> FALSE, k |-> 1]

PipelineGrid == GridOf(0, GridLen, StartStep.k)

PipelineZeroSets == {{}, {0}}

PipelineBreaks == {Unit, 2 * Unit + Unit \div 2, 4 * Unit, 7 * Unit}

PipelineResults ==
    { <<>>, << <<0, 2>> >>, << <<0, 4>> >>, << <<0, 2>>, <<2, 6>> >> }

PipelineProfiles ==
    [breaks : {<<>>}, results : [1 .. 1 -> PipelineResults]]
    \cup [breaks : {<<b>> : b \in PipelineBreaks},
          results : [1 .. 2 -> PipelineResults]]
    \cup [breaks : {bc \in PipelineBreaks \X PipelineBreaks : bc[1] < bc[2]},
          results : [1 .. 3 -> PipelineResults]]

\* lines 146-151: the methods produce_tads_segmentation has a score for
Supported(m) == m \in {"armatus", "modularity"}

\* len(list(produce_tads_segmentation(...))) at the grid value g
CountAt(profile, g) == Len(SegAt(profile, g * Unit))

CountsOver(profile, q) == {CountAt(profile, q[j]) : j \in 1 .. Len(q)}

\* whether_to_expand: the error it logs ("none" when it logs none), or the
\* exception it raises
whether_to_expand(profile, grid, step, m) ==
    LET upper_check == [j \in 1 .. ExpandSteps |-> grid[Len(grid)] + j * step.k]
        lower_check ==
            [j \in 1 .. ExpandSteps |-> grid[1] - (ExpandSteps + 1 - j) * step.k]
        upper_negative == \E j \in 1 .. ExpandSteps : upper_check[j] < 0
        lower_negative == \E j \in 1 .. ExpandSteps : lower_check[j] < 0
        \* np.argmax(lower_check >= 0), 1-based: the first place for all-False
        first_nonnegative_gamma ==
            IF \E j \in 1 .. ExpandSteps : lower_check[j] >= 0
            THEN Min({j \in 1 .. ExpandSteps : lower_check[j] >= 0})
            ELSE 1
        all_negative ==
            /\ first_nonnegative_gamma = 1
            /\ lower_check[1] < 0
            /\ grid[1] # 0
        \* line 214 appends the counts of lower_check to len_upper_segments
        len_upper_segments ==
            CountsOver(profile, upper_check)
                \cup (IF lower_negative THEN {} ELSE CountsOver(profile, lower_check))
        len_lower_segments ==
            IF lower_negative /\ grid[1] # 0
            THEN CountsOver(profile,
                     SubSeq(lower_check, first_nonnegative_gamma, ExpandSteps))
            ELSE {}
    IN  IF StepHasNoDecimals(step) THEN "IndexError"
        ELSE IF upper_negative THEN "negative upper"
        ELSE IF ~Supported(m) THEN "TypeError"
        ELSE IF lower_negative /\ all_negative THEN "negative lower"
        ELSE IF Cardinality(len_upper_segments) > 1 THEN "upper"
        ELSE IF Cardinality(len_lower_segments) > 1 THEN "lower"
        ELSE "none"

\* adjust_boundaries run to its end: every record it can end in
RECURSIVE RunAdjustBoundaries(_)
RunAdjustBoundaries(a) ==
    IF a.pc # "loop" THEN {a}
    ELSE IF a.delta > 1
    THEN UNION {RunAdjustBoundaries(LookupDelta(AfterProbe(a, rounded))) :
                    rounded \in RoundedHalves(ProbeSum(a), a.step)}
    ELSE {ReturnAdjusted(a, extra) :
              extra \in IF a.step.decimal THEN BOOLEAN ELSE {FALSE}}

\* the segment counts adjust_boundaries sees on a grid
GridCounts(profile, grid) ==
    [v \in {grid[j] : j \in 1 .. Len(grid)} |-> CountAt(profile, v)]

\* find_global_optima run to its end on new_grid
RECURSIVE ScanFrom(_, _, _)
ScanFrom(g, profile, new_grid) ==
    IF g.i = g.n THEN ScanReturn(g)
    ELSE ScanFrom(ScanPass(g, SegAt(profile, new_grid[g.i + 1] * Unit)),
                  profile, new_grid)

RunFindGlobalOptima(profile, new_grid) ==
    ScanFrom(ScanFirst(EnterFindGlobalOptima(Len(new_grid)),
                       SegAt(profile, new_grid[1] * Unit)),
             profile, new_grid)

\* adjust_global_optima run to its end: every record it can return with,
\* within the rounds the lattice resolves
RECURSIVE RunAdjustGlobalOptima(_)
RunAdjustGlobalOptima(r) ==
    IF r.pc = "start"
    THEN UNION {RunAdjustGlobalOptima(RefineRound(r, extra)) :
                    extra \in IF r.decimal THEN BOOLEAN ELSE {FALSE}}
    ELSE IF ~ExceedsEps(r.mts_cur, r.mts_prev) THEN {RefineReturn(r)}
    ELSE IF r.step >= ZoomFactor
    THEN UNION {RunAdjustGlobalOptima(
                    RefineRound([r EXCEPT !.mts_prev = r.mts_cur], extra)) :
                    extra \in BOOLEAN}
    ELSE {}

StageAfterScanBeforeLower(s) ==
    CASE s = "stripes" -> "expand"
      [] s = "expand" -> "upper"
      [] s = "upper" -> "scan"
      [] s = "scan" -> "lower"
      [] s = "lower" -> "refine"
      [] s = "refine" -> "stripes"

\* api.py lines 303-310: the call that follows each call
StageAfter(s) ==
    CASE s = "stripes" -> "expand"
      [] s = "expand" -> "upper"
      [] s = "upper" -> "lower"
      [] s = "lower" -> "scan"
      [] s = "scan" -> "refine"
      [] s = "refine" -> "stripes"

\* the call returned: it is recorded, and the next one is due
Returned(p, s) ==
    [p EXCEPT !.next = StageAfter(s), !.stages = Append(p.stages, s)]

Raised(p, s, error) ==
    [p EXCEPT !.pc = "raised", !.error = error, !.raised_in = s]

\* api.py lines 294-299
InitPipeline ==
    /\ method \in Methods
    /\ zero_rows = {}
    /\ stage = "pipeline"
    /\ filters = <<>>
    /\ good_bins = [i \in Bins |-> TRUE]
    /\ seg = NoSeg
    /\ ab = NoAB
    /\ go = NoGO
    /\ rf = NoRF
    /\ sw = NoSW
    /\ pl = [pc |-> "run", error |-> "", raised_in |-> "", c |-> 1,
             next |-> "stripes", stages |-> <<>>,
             profile |-> [breaks |-> <<>>, results |-> << <<>> >>],
             diagnostic |-> "",
             adj_grid |-> [returned |-> "", grid |-> <<>>],
             upper_in |-> <<>>, upper_out |-> <<>>, lower_in |-> <<>>,
             lower_out |-> <<>>, scan_in |-> <<>>, opt_gamma |-> 0,
             refine_in |-> 0,
             df |-> <<>>, df_concretized |-> <<>>, opt_gammas |-> <<>>]

\* line 303: get_noisy_stripes on the chromosome's matrix.  No call of the
\* loop body is running: ab, go and rf hold no locals.
PipelineStripes ==
    /\ pl.pc = "run"
    /\ pl.next = "stripes"
    /\ \E zero \in PipelineZeroSets, profile \in PipelineProfiles :
          LET r == GetNoisyStripesResult(zero, method, Resolution)
              p == [pl EXCEPT !.profile = profile, !.stages = <<>>]
          IN  /\ zero_rows' = zero
              /\ filters' = r.filters
              /\ good_bins' = r.good_bins
              /\ pl' = IF r.status = "ok" THEN Returned(p, "stripes")
                       ELSE Raised(p, "stripes", r.status)
    /\ ab' = NoAB
    /\ go' = NoGO
    /\ rf' = NoRF
    /\ UNCHANGED <<method, stage, seg, sw>>

\* line 304: whether_to_expand; what it returns is not used
PipelineExpand ==
    /\ pl.pc = "run"
    /\ pl.next = "expand"
    /\ LET d == whether_to_expand(pl.profile, PipelineGrid, StartStep, method)
       IN  pl' = IF d \in {"IndexError", "TypeError"}
                 THEN Raised(pl, "expand", d)
                 ELSE Returned([pl EXCEPT !.diagnostic = d], "expand")
    /\ UNCHANGED <<method, zero_rows, stage, filters, good_bins, seg, ab, go, rf, sw>>

\* lines 305-306: adj_grid = adjust_boundaries(..., grid, ..., type='upper')
PipelineUpper ==
    /\ pl.pc = "run"
    /\ pl.next = "upper"
    /\ \E a \in RunAdjustBoundaries(
                   EnterAdjustBoundaries(PipelineGrid, StartStep, "upper",
                       GridCounts(pl.profile, PipelineGrid), 1, <<>>)) :
          /\ ab' = a
          /\ pl' = IF a.pc = "raised" THEN Raised(pl, "upper", a.error)
                   ELSE Returned([pl EXCEPT
                                     !.upper_in = PipelineGrid,
                                     !.upper_out = a.ret,
                                     !.adj_grid = [returned |-> a.returned,
                                                   grid |-> a.ret]], "upper")
    /\ UNCHANGED <<method, zero_rows, stage, filters, good_bins, seg, go, rf, sw>>

\* lines 307-308: adj_grid = adjust_boundaries(..., adj_grid, ..., type='lower')
PipelineLower ==
    /\ pl.pc = "run"
    /\ pl.next = "lower"
    /\ \E a \in RunAdjustBoundaries(
                   EnterAdjustBoundaries(pl.adj_grid.grid, StartStep, "lower",
                       GridCounts(pl.profile, pl.adj_grid.grid), 1, <<>>)) :
          /\ ab' = a
          /\ pl' = IF a.pc = "raised" THEN Raised(pl, "lower", a.error)
                   ELSE Returned([pl EXCEPT
                                     !.lower_in = pl.adj_grid.grid,
                                     !.lower_out = a.ret,
                                     !.adj_grid = [returned |-> a.returned,
                                                   grid |-> a.ret]], "lower")
    /\ UNCHANGED <<method, zero_rows, stage, filters, good_bins, seg, go, rf, sw>>

\* the rows find_global_optima added, with the gamma and the chromosome
ScanRows(g, new_grid, ch) ==
    [j \in 1 .. Len(g.df) |->
        <<g.df[j][1], g.df[j][2], new_grid[g.df[j][3] + 1] * Unit, ch>>]

\* line 309: df, opt_gamma = find_global_optima(..., adj_grid, ...); adj_grid[0]
\* of line 320 raises TypeError when adj_grid is None
PipelineScan ==
    /\ pl.pc = "run"
    /\ pl.next = "scan"
    /\ IF pl.adj_grid.returned = None
       THEN /\ pl' = Raised(pl, "scan", "TypeError")
            /\ go' = go
       ELSE LET new_grid == pl.adj_grid.grid
                g == RunFindGlobalOptima(pl.profile, new_grid)
            IN  /\ go' = g
                /\ pl' = Returned([pl EXCEPT
                              !.scan_in = new_grid,
                              !.opt_gamma = new_grid[g.opt_gamma + 1] * Unit,
                              !.df = pl.df \o ScanRows(g, new_grid, Chrms[pl.c])],
                              "scan")
    /\ UNCHANGED <<method, zero_rows, stage, filters, good_bins, seg, ab, rf, sw>>

\* line 310: df_concretized, opt_gammas = adjust_global_optima(..., opt_gamma,
\* opt_gammas, ..., df_concretized, ...), and the end of the loop body
PipelineRefine ==
    /\ pl.pc = "run"
    /\ pl.next = "refine"
    /\ \E r \in RunAdjustGlobalOptima(
                   EnterAdjustGlobalOptima(pl.profile, pl.opt_gamma,
                       StartStep.decimal, Chrms[pl.c], pl.df_concretized,
                       pl.opt_gammas)) :
          /\ rf' = r
          /\ pl' = [Returned([pl EXCEPT
                                 !.refine_in = pl.opt_gamma,
                                 !.df_concretized = r.df_concretized,
                                 !.opt_gammas = r.opt_gammas], "refine")
                       EXCEPT !.c = pl.c + 1,
                              !.pc = IF pl.c = Len(Chrms) THEN "finished"
                                     ELSE "run"]
    /\ UNCHANGED <<method, zero_rows, stage, filters, good_bins, seg, ab, go, sw>>

NextPipeline ==
    \/ PipelineStripes
    \/ PipelineExpand
    \/ PipelineUpper
    \/ PipelineLower
    \/ PipelineScan
    \/ PipelineRefine

SpecPipeline == InitPipeline /\ [][NextPipeline]_vars

(***************************************************************************)
(* Claims about the noise mask and the segmentation generators.            *)
(***************************************************************************)
Segmented == stage = "segmented"
DensityCall == Segmented /\ method \in {"armatus", "modularity"}
Elems(s) == {s[j] : j \in 1 .. Len(s)}
Length(x) == x[2] - x[1]

\* C1: every segment produce_tads_segmentation returns, on either return
\* path, has max_intertad_size < end - start < max_tad_size, both strict.
C1_ReturnedWithinSizeBounds ==
    (Segmented /\ method # "insulation") =>
        \A x \in Elems(seg.ret) :
            MaxIntertadSize < Length(x) /\ Length(x) < MaxTadSize

\* a call that returned a segment and dropped one block of the oracle at
\* each size bound
C1_Witness ==
    /\ DensityCall
    /\ seg.ret # <<>>
    /\ \E x \in Elems(seg.oracle) : Length(x) = MaxIntertadSize
    /\ \E x \in Elems(seg.oracle) : Length(x) = MaxTadSize

\* C2: no segment produce_tads_segmentation returns is fully noisy.
C2_NoReturnedSegmentFullyNoisy ==
    DensityCall =>
        \A x \in Elems(seg.ret) : ~whether_tad_noisy(x, filters, method, 0, 0)

\* C3 as claimed: the call keeps exactly the size-bounded candidates whose
\* metric exceeds 0.
C3_KeepsMetricAboveZero ==
    DensityCall =>
        seg.ret = Take(seg.segments,
                       SortedSeq({j \in 1 .. Len(seg.segments) :
                                     seg.metric_values[j] > 0}))

\* the positive metrics below the metric at position j
LowerPositive(mv, j) == {i \in 1 .. Len(mv) : 0 < mv[i] /\ mv[i] < mv[j]}

\* C3 as amended: with L the number of positive metrics among the
\* size-bounded candidates and i = int(L * noise_freq), the call returns all
\* the candidates when i = 0 or i >= L, and otherwise exactly the candidates
\* with a positive metric that has at least i positive metrics below it.
C3_KeepsAboveNoiseFrequencyThreshold ==
    DensityCall =>
        LET mv == seg.metric_values
            L  == Cardinality({j \in 1 .. Len(mv) : mv[j] > 0})
            i  == (L * NoiseSum(filters)) \div NBins
        IN  IF i = 0 \/ i >= L
            THEN seg.ret = seg.segments
            ELSE seg.ret =
                    Take(seg.segments,
                         SortedSeq({j \in 1 .. Len(mv) :
                            mv[j] > 0 /\ Cardinality(LowerPositive(mv, j)) >= i}))

\* the threshold was computed; it dropped a candidate with a positive metric
\* and kept another
C3_Witness ==
    /\ DensityCall
    /\ seg.path = "thresh"
    /\ seg.ret # <<>>
    /\ \E j \in 1 .. Len(seg.segments) :
          seg.metric_values[j] > 0 /\ seg.segments[j] \notin Elems(seg.ret)

\* the bins a returned stripe covers: its two ends are bin numbers, both
\* inclusive, for armatus and modularity; genomic coordinates, the end
\* exclusive, for insulation
BinInStripe(i, f) ==
    IF method = "insulation"
    THEN f[1] <= i * Resolution /\ i * Resolution + Resolution <= f[2]
    ELSE f[1] <= i /\ i <= f[2]

StripesDone == stage \in {"stripes", "segmented"}

\* the maximal runs of consecutive bins of Z, in order, as <<first, last>>
MaximalRuns(Z) ==
    LET firsts == SortedSeq({b \in Z : (b - 1) \notin Z})
        lasts  == SortedSeq({b \in Z : (b + 1) \notin Z})
    IN  [j \in 1 .. Len(firsts) |-> <<firsts[j], lasts[j]>>]

\* C4: the stripes get_noisy_stripes returns are exactly the maximal runs of
\* zero-row-sum bins, so every such bin, the last one too, is covered.
C4_StripesAreMaximalRuns ==
    StripesDone =>
        /\ Len(filters) = Len(MaximalRuns(zero_rows))
        /\ \A j \in 1 .. Len(filters) : \A i \in Bins :
              BinInStripe(i, filters[j]) <=>
                  (MaximalRuns(zero_rows)[j][1] <= i
                      /\ i <= MaximalRuns(zero_rows)[j][2])

\* C5: good_bins[i] is False exactly for the bins inside a returned stripe,
\* in bin numbers and in genomic coordinates.
C5_MaskIsStripeCoverage ==
    StripesDone =>
        \A i \in Bins :
            (good_bins[i] = FALSE) <=>
                (\E f \in Elems(filters) : BinInStripe(i, f))

\* two stripes in bin numbers, bins masked and bins left good
C5_Witness ==
    /\ stage = "stripes"
    /\ method = "armatus"
    /\ Len(filters) = 2
    /\ \E i \in Bins : ~good_bins[i]
    /\ \E i \in Bins : good_bins[i]

\* C6: with no zero-row-sum bin get_noisy_stripes completes with no stripe
\* and an all-true mask.
C6_NoZeroRowCompletes ==
    (zero_rows = {} /\ stage # "start") =>
        /\ stage # "raised"
        /\ filters = <<>>
        /\ \A i \in Bins : good_bins[i]

\* the resolution and k calc_noisy_metric got for the last call
CallResolution == IF method = "insulation" THEN Resolution ELSE 0
CallK == IF method = "insulation" THEN K ELSE 0

\* the claim's rule for one segment: for some stripe, widened by
\* k * resolution for insulation only, an end of x is in the closed stripe, or
\* x contains the stripe and the stripe's width is not 0
FullyNoisyRule(x) ==
    \E f \in Elems(filters) :
        LET b == IF method = "insulation" THEN f[1] - CallK * CallResolution ELSE f[1]
            e == IF method = "insulation" THEN f[2] + CallK * CallResolution ELSE f[2]
        IN  \/ b <= x[1] /\ x[1] <= e
            \/ b <= x[2] /\ x[2] <= e
            \/ x[1] <= b /\ e <= x[2] /\ e # b

C8_LoopStopsAtDistanceOne ==
    (ab.pc \in {"done", "raised"} /\ ab.probes > 0) =>
        (ab.delta <= 1 /\ ab.error # "TypeError")

\* on steps of one unit the loop does stop at distance 1, within as many
\* probes as the grid has values
BisectionStopsOnUnitSteps ==
    (ab.pc # "idle" /\ ab.step.k = 1) =>
        /\ ab.error # "TypeError"
        /\ ab.probes <= Len(ab.grid)
        /\ (ab.pc = "done" => ab.delta <= 1)

\* C9: with the counts held fixed, a second call for the same side on the
\* grid the first call returned gives that grid back.  Stated for
\* start_step = 1 and a grid whose counts are all equal, which is stable at
\* both edges.
C9_SecondCallReturnsSameGrid ==
    (ab.pc = "done" /\ ab.run = 2 /\ ~ab.step.decimal
        /\ \A v, w \in DOMAIN ab.counts : ab.counts[v] = ab.counts[w]) =>
        (ab.returned = "grid" /\ ab.ret = ab.first_ret)

(***************************************************************************)
(* Claims about find_global_optima.                                        *)
(***************************************************************************)
Candidates == {go.local_optimas[p][1] : p \in 1 .. Len(go.local_optimas)}
\* the place of a registered candidate in insertion order
PlaceOf(gamma) ==
    CHOOSE p \in 1 .. Len(go.local_optimas) : go.local_optimas[p][1] = gamma
\* the total coverage of the segmentation scanned at gamma
CoverageAt(gamma) == go.covs[gamma + 1]
\* |mean size - target| is the same at the two gammas
EquallyClose(g, h) ==
    /\ ~IsNaN(go.mean_tad_sizes[g + 1])
    /\ ~IsNaN(go.mean_tad_sizes[h + 1])
    /\ CloserOrEqual(go.mean_tad_sizes[g + 1], go.mean_tad_sizes[h + 1], TargetSize)
    /\ CloserOrEqual(go.mean_tad_sizes[h + 1], go.mean_tad_sizes[g + 1], TargetSize)

Sized == {g \in 0 .. go.n - 1 : ~IsNaN(go.mean_tad_sizes[g + 1])}
\* a scanned grid point no other is closer to the target than
GloballyClosest(g) ==
    /\ g \in Sized
    /\ \A h \in Sized :
          CloserOrEqual(go.mean_tad_sizes[g + 1], go.mean_tad_sizes[h + 1], TargetSize)

\* C11: after the scan the candidate set is not empty, it contains a scanned
\* grid point whose mean size is globally closest to the target, and the
\* returned parameter is one of the scanned grid values.
C11_FallbackIsGloballyClosest ==
    go.pc = "done" =>
        /\ Candidates # {}
        /\ go.opt_gamma \in 0 .. go.n - 1
        /\ Sized # {} => \E g \in Candidates : GloballyClosest(g)

\* what remains true of the fallback: a candidate is always registered, the
\* returned parameter was scanned, and the closest point is a candidate when
\* every scanned mean size is a number
FallbackRegistersScannedPoint ==
    go.pc = "done" =>
        /\ Candidates # {}
        /\ Candidates \subseteq 0 .. go.n - 1
        /\ go.opt_gamma \in Candidates
        /\ Sized = 0 .. go.n - 1 => \E g \in Candidates : GloballyClosest(g)

\* C15: the mean size the scan of find_global_optima uses for a parameter at
\* which no segment survives is 0, not NaN (the coverage is 0).
C15_EmptySegmentationMeanIsZero ==
    \A p \in 1 .. Len(go.mean_tad_sizes) :
        go.covs[p] = 0 =>
            /\ ~IsNaN(go.mean_tad_sizes[p])
            /\ go.mean_tad_sizes[p][1] = 0

(***************************************************************************)
(* Claims about adjust_global_optima.                                      *)
(***************************************************************************)
\* the mean size does not grow with gamma
Monotonic(profile) ==
    \A j \in 1 .. Len(profile.results) - 1 :
        LET m == MeanLengths(profile.results[j])
            n == MeanLengths(profile.results[j + 1])
        IN  /\ ~IsNaN(m)
            /\ ~IsNaN(n)
            /\ n[1] * m[2] <= m[1] * n[2]

\* the gammas of the window [opt_gamma - start_step, opt_gamma + start_step)
FirstWindow == (rf.opt_gamma - Unit) .. (rf.opt_gamma + Unit - 1)

\* no gamma of the first window has a smaller |mean size - target| than dev
TrueMinimum(dev) ==
    \A g \in FirstWindow :
        LET d == Deviation(MeanLengths(SegAt(rf.profile, g)))
        IN  dev[1] * d[2] <= d[1] * dev[2]

\* C12: for a monotonic mean-size function adjust_global_optima stops with a
\* parameter whose |mean size - target| is within eps of the least value of
\* |mean size - target|.
C12_RefinerReachesTrueMinimum ==
    (rf.pc = "done" /\ Monotonic(rf.profile)) =>
        TrueMinimum(Deviation(MeanLengths(rf.final_segments)))

\* what the stop rule does give: the loop is left when a round improves on the
\* one before by eps at most, and the returned parameter is a sample of the
\* last grid
RefinerStopsOnNoImprovement ==
    rf.pc = "done" =>
        /\ ~ExceedsEps(rf.mts_cur, rf.mts_prev)
        /\ \E j \in 1 .. Len(rf.new_grid) : rf.new_grid[j] = rf.new_opt_gamma
        /\ rf.rounds <= MaxZoom + 1

(***************************************************************************)
(* Claims about search_opt_window.                                         *)
(***************************************************************************)
\* the mean TAD size crosses the target between window j - 1 and window j
WindowCrosses(j) ==
    Crosses(WindowMean(sw.bins[j], filters), WindowMean(sw.bins[j - 1], filters),
            TargetSize)

\* C13: once search_opt_window is through with a chromosome,
\* is_exp_tad_size_reached was false at every window before the first crossing
\* of the target and true at that window and at every later one.
C13_FlagSetAtFirstCrossing ==
    (sw.pc \in {"done", "raised"} /\ sw.error # "IndexError") =>
        \A j \in 2 .. Len(sw.bins) :
            /\ Len(sw.reached) >= j - 1
            /\ sw.reached[j - 1] = (\E i \in 2 .. j : WindowCrosses(i))

(***************************************************************************)
(* Claims about search_opt_gamma.                                          *)
(***************************************************************************)
Done(s) == \E j \in 1 .. Len(pl.stages) : pl.stages[j] = s
IsPrefix(q, r) == Len(q) <= Len(r) /\ SubSeq(r, 1, Len(q)) = q
StageOrder == <<"stripes", "expand", "upper", "lower", "scan", "refine">>

\* C14: when adjust_boundaries(type='lower') returns no grid, or
\* whether_to_expand reports a failure, search_opt_gamma does not raise.
C14_ValidationFailureDoesNotRaise ==
    /\ pl.adj_grid.returned = None => pl.pc # "raised"
    /\ (pl.diagnostic \notin {"", "none"} /\ pl.next = "upper") => pl.pc # "raised"

\* the part that holds: a failure whether_to_expand reports does not stop the
\* chromosome
ExpandFailureIsOnlyReported ==
    (pl.diagnostic \notin {"", "none"} /\ pl.next = "upper") => pl.pc = "run"

\* C17: with an unsupported method name no caller of the segmentation stage
\* raises.
C17_UnsupportedMethodDoesNotRaise ==
    (~Supported(method) /\ pl.pc = "raised") => pl.raised_in = "stripes"

\* C18: the calls of one chromosome are made in the order noise mask, grid
\* validation, upper narrowing, lower narrowing, scan, refinement; the lower
\* narrowing is given the grid the upper one returned, the scan the grid the
\* lower one returned, the refinement the optimum of the scan.
C18_StagesRunInOrderOnPreviousOutput ==
    pl.pc # "idle" =>
        /\ IsPrefix(pl.stages, StageOrder)
        /\ Done("upper") => pl.upper_in = PipelineGrid
        /\ Done("lower") => pl.lower_in = pl.upper_out
        /\ Done("scan") => pl.scan_in = pl.lower_out
        /\ Done("refine") =>
              /\ pl.refine_in = pl.scan_in[go.opt_gamma + 1] * Unit
              /\ rf.opt_gamma = pl.refine_in

\* every call of the second chromosome was made, each narrowing cut the grid
\* it was given
C18_Witness ==
    /\ pl.stages = StageOrder
    /\ pl.c = Len(Chrms) + 1
    /\ Len(pl.upper_out) < Len(pl.upper_in)
    /\ Len(pl.lower_out) < Len(pl.lower_in)
    /\ pl.refine_in # pl.scan_in[1] * Unit

\* C19: every row of the optimal table is a row of the full table, with the
\* same bgn, end, gamma and chromosome.
C19_OptimalRowsAreFullTableRows ==
    pl.pc = "finished" =>
        \A j \in 1 .. Len(pl.df_concretized) :
            \E i \in 1 .. Len(pl.df) : pl.df[i] = pl.df_concretized[j]

\* what one chromosome gives when it is processed alone, with empty tables:
\* the rows of its scan, and each way its refinement can end
SoloGrids(profile) ==
    UNION {{lo.ret : lo \in {a \in RunAdjustBoundaries(
                                  EnterAdjustBoundaries(up.ret, StartStep, "lower",
                                      GridCounts(profile, up.ret), 1, <<>>)) :
                              a.returned = "grid"}} :
           up \in {a \in RunAdjustBoundaries(
                        EnterAdjustBoundaries(PipelineGrid, StartStep, "upper",
                            GridCounts(profile, PipelineGrid), 1, <<>>)) :
                    a.returned = "grid"}}

SoloRuns(profile, ch) ==
    UNION {LET g == RunFindGlobalOptima(profile, new_grid)
           IN  {[df |-> ScanRows(g, new_grid, ch),
                 df_concretized |-> r.df_concretized,
                 opt_gamma |-> r.new_opt_gamma] :
                   r \in RunAdjustGlobalOptima(
                            EnterAdjustGlobalOptima(profile,
                                new_grid[g.opt_gamma + 1] * Unit,
                                StartStep.decimal, ch, <<>>, <<>>))} :
           new_grid \in SoloGrids(profile)}

Overlaps(x, f) == x[1] <= f[2] /\ f[1] < x[2]

\* C16: no segment returned by the final call of produce_tads_segmentation,
\* and so no row of the optimal table, overlaps a BadInterval of the
\* chromosome.
C16_FinalSegmentsAvoidBadIntervals ==
    DensityCall =>
        \A x \in Elems(seg.ret) :
            \A p \in 1 .. Len(filters) : ~Overlaps(x, filters[p])

(***************************************************************************)
(* Further claims about adjust_boundaries.                                 *)
(***************************************************************************)
\* a pass of the while loop that got as far as the assignment of delta
CompletedPass ==
    /\ ab.pc = "loop"
    /\ ab'.pc = "loop"
    /\ ab'.probes = ab.probes + 1

StableFrom(a, t) ==
    LET n == Len(a.grid)
        stable == a.counts[a.grid[n]]
    IN  /\ \A j \in t .. n : a.counts[a.grid[j]] = stable
        /\ \A j \in 1 .. t - 1 : a.counts[a.grid[j]] # stable

\* the count is the same from the lower end of the grid to place t and
\* differs from it at every place above t
StableUpTo(a, t) ==
    LET n == Len(a.grid)
        stable == a.counts[a.grid[1]]
    IN  /\ \A j \in 1 .. t : a.counts[a.grid[j]] = stable
        /\ \A j \in t + 1 .. n : a.counts[a.grid[j]] # stable

\* the values of the grid that the returned grid no longer has
CutOff(a) ==
    {v \in {a.grid[j] : j \in 1 .. Len(a.grid)} :
        \A i \in 1 .. Len(a.ret) : a.ret[i] # v}

\* C22: when the count is stable from a threshold value on and differs at
\* every grid value on the other side of it, the grid adjust_boundaries
\* returns keeps the original opposite edge and every grid value it cuts off
\* has the stable count.
C22_OnlyStableValuesCutOff ==
    (ab.pc = "done" /\ ab.run = 1 /\ ab.returned = "grid") =>
        /\ (ab.type = "upper" /\ \E t \in 1 .. Len(ab.grid) : StableFrom(ab, t)) =>
              /\ ab.ret[1] = ab.grid[1]
              /\ \A v \in CutOff(ab) : ab.counts[v] = ab.counts[ab.grid[Len(ab.grid)]]
        /\ (ab.type = "lower" /\ \E t \in 1 .. Len(ab.grid) : StableUpTo(ab, t)) =>
              /\ ab.ret[Len(ab.ret)] >= ab.grid[Len(ab.grid)]
              /\ \A v \in CutOff(ab) : ab.counts[v] = ab.counts[ab.grid[1]]

\* the returned grid does keep the opposite edge of the original
ReturnedGridKeepsOppositeEdge ==
    (ab.pc = "done" /\ ab.run = 1 /\ ab.returned = "grid") =>
        IF ab.type = "upper" THEN ab.ret[1] = ab.grid[1]
        ELSE ab.ret[Len(ab.ret)] >= ab.grid[Len(ab.grid)]

\* C23: for every grid with a fixed step, every probe value adjust_boundaries
\* assigns to bound_1 is a value of the grid, so the index lookups of bound_1
\* and bound_2 of line 286 are defined and never fail.
C23_ProbesAreGridValues ==
    (ab.pc # "idle" /\ ab.error # "IndexError") =>
        /\ Positions(ab.grid, ab.bound_1) # {}
        /\ Positions(ab.grid, ab.bound_2) # {}
        /\ ab.error # "TypeError"

(***************************************************************************)
(* whether_to_expand on grids that do not start at 0, lines 181-235.       *)
(***************************************************************************)
\* largest number of values of a checked grid
MaxExpandGrid == 3

\* grid[0]: below -10 steps the upper range is negative, from -10 to -1 only
\* the lower one is, from 1 to 9 the lower range is cut at 0, from 10 on it
\* is whole
ExpandGridStarts == {-25, -3, 0, 3, 10, 12}

ExpandBreaks == {2 * Unit, 5 * Unit, 15 * Unit, 20 * Unit}

ExpandProfiles ==
    [breaks : {<<>>}, results : [1 .. 1 -> PipelineResults]]
    \cup [breaks : {<<b>> : b \in ExpandBreaks},
          results : [1 .. 2 -> PipelineResults]]

InitExpand ==
    /\ method = "armatus"
    /\ zero_rows = {}
    /\ stage = "expand"
    /\ filters = <<>>
    /\ good_bins = [i \in Bins |-> TRUE]
    /\ seg = NoSeg
    /\ ab = NoAB
    /\ go = NoGO
    /\ rf = NoRF
    /\ sw = NoSW
    /\ \E first \in ExpandGridStarts, n \in 1 .. MaxExpandGrid,
          profile \in ExpandProfiles :
          pl = [pc |-> "expand", error |-> "", profile |-> profile,
                grid |-> GridOf(first, n, StartStep.k), diagnostic |-> ""]

\* the call of whether_to_expand
WhetherToExpand ==
    /\ pl.pc = "expand"
    /\ pl' = [pl EXCEPT !.pc = "expanded",
                        !.diagnostic =
                            whether_to_expand(pl.profile, pl.grid, StartStep, method)]
    /\ UNCHANGED <<method, zero_rows, stage, filters, good_bins, seg, ab, go, rf, sw>>

NextExpand == WhetherToExpand

SpecExpand == InitExpand /\ [][NextExpand]_vars

(***************************************************************************)
(* Claims about whether_to_expand.                                         *)
(***************************************************************************)
\* the counts over the upper extension range: 10 steps above grid[-1]
UpperRangeCounts(profile, grid) ==
    {CountAt(profile, grid[Len(grid)] + j * StartStep.k) : j \in 1 .. ExpandSteps}

\* the counts over the lower extension range: 10 steps below grid[0], the
\* negative values left out
LowerRangeCounts(profile, grid) ==
    {CountAt(profile, g) :
        g \in {v \in {grid[1] - j * StartStep.k : j \in 1 .. ExpandSteps} : v >= 0}}

\* C24: whether_to_expand reports the upper-bound diagnostic only when the
\* counts over the upper extension range are not all equal, and the
\* lower-bound diagnostic whenever the counts over the lower extension range
\* are not all equal (and the upper ones are); the counts of one range never
\* trigger the diagnostic of the other.
C24_DiagnosticsFollowTheirOwnRange ==
    (pl.pc = "expanded" /\ pl.diagnostic \in {"upper", "lower", "none"}) =>
        LET upper == UpperRangeCounts(pl.profile, pl.grid)
            lower == LowerRangeCounts(pl.profile, pl.grid)
        IN  /\ pl.diagnostic = "upper" => Cardinality(upper) > 1
            /\ (Cardinality(lower) > 1 /\ Cardinality(upper) <= 1) =>
                  pl.diagnostic = "lower"
            /\ pl.diagnostic = "lower" => Cardinality(lower) > 1

\* when the lower range reaches below 0 its counts are kept apart, and the
\* diagnostics do follow their own range
DiagnosticsFollowTheirOwnRangeNearZero ==
    (pl.pc = "expanded" /\ pl.diagnostic \in {"upper", "lower", "none"}
        /\ pl.grid[1] < ExpandSteps * StartStep.k) =>
        LET upper == UpperRangeCounts(pl.profile, pl.grid)
            lower == LowerRangeCounts(pl.profile, pl.grid)
        IN  /\ pl.diagnostic = "upper" => Cardinality(upper) > 1
            /\ (Cardinality(lower) > 1 /\ Cardinality(upper) <= 1) =>
                  pl.diagnostic = "lower"
            /\ pl.diagnostic = "lower" => Cardinality(lower) > 1

(***************************************************************************)
(* Claims about the crossings of the target size.                          *)
(***************************************************************************)
\* the scanned parameters at places j and j + 1 bracket a crossing
ScanPairCrosses(j) ==
    Crosses(go.mean_tad_sizes[j + 1], go.mean_tad_sizes[j], TargetSize)

\* the parameter of the pair whose mean size is closer to the target, the
\* later one when both are equally close (the parameter at place j is j - 1)
CloserOfPair(j) ==
    IF CloserOrEqual(go.mean_tad_sizes[j + 1], go.mean_tad_sizes[j], TargetSize)
    THEN j
    ELSE j - 1

CrossingCandidates ==
    {CloserOfPair(j) : j \in {i \in 1 .. Len(go.mean_tad_sizes) - 1 : ScanPairCrosses(i)}}

\* in find_global_optima every crossing pair has registered its closer
\* parameter once, with that parameter's own coverage, and during the scan
\* nothing else is registered
CrossingRegistersCloserParameter ==
    go.pc \in {"scan", "done"} =>
        /\ \A k \in CrossingCandidates :
              /\ Cardinality({p \in 1 .. Len(go.local_optimas) :
                                 go.local_optimas[p][1] = k}) = 1
              /\ \A p \in 1 .. Len(go.local_optimas) :
                    go.local_optimas[p][1] = k =>
                        go.local_optimas[p][2] = go.covs[k + 1]
        /\ go.pc = "scan" =>
              \A p \in 1 .. Len(go.local_optimas) :
                  go.local_optimas[p][1] \in CrossingCandidates

\* some scanned pair has crossed the target and registered its candidate
CrossingRegistered ==
    /\ go.pc = "scan"
    /\ CrossingCandidates # {}
    /\ Len(go.local_optimas) >= 1

\* the candidates search_opt_window has registered: local_optimas exists
\* from api.py line 181 on
WindowCandidates == IF sw.pc = "done" THEN sw.local_optimas ELSE <<>>

\* the window of the pair (j - 1, j) that is closer to the target
CloserWindow(j) ==
    IF CloserOrEqual(WindowMean(sw.bins[j], filters),
                     WindowMean(sw.bins[j - 1], filters), TargetSize)
    THEN j
    ELSE j - 1

\* C25: in find_global_optima and in search_opt_window every pair of
\* consecutive parameters that brackets a crossing of the target registers
\* exactly one candidate, the parameter of the pair that is closer to the
\* target (the later one on a tie), with that parameter's own coverage.
C25_CrossingRegistersOneCandidate ==
    /\ CrossingRegistersCloserParameter
    /\ (sw.pc \in {"done", "raised"} /\ sw.error # "IndexError") =>
          \A j \in 2 .. Len(sw.bins) :
              WindowCrosses(j) =>
                  Cardinality({p \in 1 .. Len(WindowCandidates) :
                                  WindowCandidates[p][1] = CloserWindow(j)}) = 1

(***************************************************************************)
(* Claims about calc_noisy_metric.                                         *)
(***************************************************************************)
\* the BadIntervals ending at or before the start of x, and those starting at
\* or after its end
StripesLeftOf(x) == {f \in Elems(filters) : f[2] <= x[1]}
StripesRightOf(x) == {f \in Elems(filters) : f[1] >= x[2]}

\* the metric of one side: 1e10 when the side has no stripe
LeftSideRule(x) ==
    IF StripesLeftOf(x) = {} THEN BigMetric
    ELSE SideMetric(x[1] - Max({f[2] : f \in StripesLeftOf(x)}), Length(x))

RightSideRule(x) ==
    IF StripesRightOf(x) = {} THEN BigMetric
    ELSE SideMetric(Min({f[1] : f \in StripesRightOf(x)}) - x[2], Length(x))

\* C26: for the density-score methods the metric of a segment that is not
\* noisy is the minimum of its two side metrics, the left one taken from the
\* BadInterval with the greatest end at or before the segment's start, the
\* right one from the BadInterval with the smallest start at or after the
\* segment's end, a missing side counting as 1e10.
C26_MetricUsesNearestStripes ==
    (DensityCall /\ seg.kind = "array") =>
        \A j \in 1 .. Len(seg.segments) :
            LET x == seg.segments[j]
            IN  seg.metric_values[j] # -1 =>
                   /\ seg.metric_values[j] = Min({LeftSideRule(x), RightSideRule(x)})
                   /\ StripesLeftOf(x) # {} =>
                         LeftStripe(x, filters)[2] = Max({f[2] : f \in StripesLeftOf(x)})
                   /\ StripesRightOf(x) # {} =>
                         RightStripe(x, filters)[1] = Min({f[1] : f \in StripesRightOf(x)})

\* a segment that is not noisy has two BadIntervals on its left, at gaps
\* that give different metrics, and none on its right
C26_Witness ==
    /\ DensityCall
    /\ seg.kind = "array"
    /\ \E j \in 1 .. Len(seg.segments) :
          LET x == seg.segments[j]
          IN  /\ seg.metric_values[j] # -1
              /\ StripesRightOf(x) = {}
              /\ \E f, h \in StripesLeftOf(x) :
                    /\ f[2] < h[2]
                    /\ SideMetric(x[1] - f[2], Length(x))
                          # SideMetric(x[1] - h[2], Length(x))

\* a segment that is not noisy lies between two BadIntervals at different gaps
SegmentBetweenStripes ==
    /\ DensityCall
    /\ seg.kind = "array"
    /\ \E j \in 1 .. Len(seg.segments) :
          LET x == seg.segments[j]
          IN  /\ seg.metric_values[j] # -1
              /\ StripesLeftOf(x) # {}
              /\ StripesRightOf(x) # {}
              /\ LeftSideRule(x) # RightSideRule(x)

(***************************************************************************)
(* Further claims about adjust_global_optima.                              *)
(***************************************************************************)
\* the means of the samples of the last round
LastRoundMeans == RefineMeans(rf.profile, rf.new_grid)

\* the samples of the last round whose mean is closest to the target, among
\* those that have a mean
LastRoundMinimizers ==
    {rf.new_grid[j] : j \in
        {i \in 1 .. Len(rf.new_grid) :
            /\ ~IsNaN(LastRoundMeans[i])
            /\ \A q \in 1 .. Len(rf.new_grid) :
                  ~IsNaN(LastRoundMeans[q]) =>
                      CloserOrEqual(LastRoundMeans[i], LastRoundMeans[q], TargetSize)}}

\* the rows the call appended to the optimal table
AppendedRows ==
    SubSeq(rf.df_concretized,
           Len(rf.df_concretized) - Len(rf.final_segments) + 1,
           Len(rf.df_concretized))

\* the appended rows are the segmentation at opt_gammas[ch], tagged with it
RowsAreSegmentationAtOptimum ==
    LET g == rf.opt_gammas[rf.ch]
        segments == SegAt(rf.profile, g)
    IN  /\ rf.final_segments = segments
        /\ AppendedRows =
              [j \in 1 .. Len(segments) |->
                  <<segments[j][1], segments[j][2], g, rf.ch>>]

\* C27: when adjust_global_optima stops, opt_gammas[ch] is the sample of the
\* last zoom round whose mean size is closest to the target, and the rows
\* appended for ch are the segmentation at exactly that value, tagged with it.
C27_StoredOptimumIsLastRoundMinimizer ==
    rf.pc = "done" =>
        /\ LastRoundMinimizers # {} => rf.opt_gammas[rf.ch] \in LastRoundMinimizers
        /\ RowsAreSegmentationAtOptimum

\* the part of C27 that holds: the rows are those of the stored value, and
\* the stored value is a minimizer when every sample of the last round has a
\* mean
StoredOptimumWhenEverySampleHasSegments ==
    rf.pc = "done" =>
        /\ RowsAreSegmentationAtOptimum
        /\ (\A j \in 1 .. Len(rf.new_grid) : ~IsNaN(LastRoundMeans[j])) =>
              rf.opt_gammas[rf.ch] \in LastRoundMinimizers

\* a round of adjust_global_optima has sampled its grid
RoundDone == rf'.rounds = rf.rounds + 1

\* deviation a is a number and is not larger than deviation b
NotLarger(a, b) == ~IsNaN(a) /\ a[1] * b[2] <= b[1] * a[2]

\* C28: the grid of every zoom round contains the optimum it is built around,
\* so the best |mean size - target| of a round is never larger than the best
\* of the round before, nor than the value at the coarse optimum.
C28_RoundNeverWorsensBest ==
    [][RoundDone =>
          /\ \E j \in 1 .. Len(rf'.new_grid) : rf'.new_grid[j] = rf.new_opt_gamma
          /\ ~IsNaN(rf'.mts_prev) => NotLarger(rf'.mts_cur, rf'.mts_prev)]_vars

\* the part of C28 that holds: the optimum is a sample of the next grid, and
\* the best does not get larger over a round whose samples all have segments
RoundNeverWorsensBestWhenEverySampleHasSegments ==
    [][RoundDone =>
          /\ \E j \in 1 .. Len(rf'.new_grid) : rf'.new_grid[j] = rf.new_opt_gamma
          /\ (/\ ~IsNaN(rf'.mts_prev)
              /\ \A j \in 1 .. Len(rf'.new_grid) :
                    ~IsNaN(MeanLengths(SegAt(rf.profile, rf'.new_grid[j])))) =>
                NotLarger(rf'.mts_cur, rf'.mts_prev)]_vars

(***************************************************************************)
(* Further claims about search_opt_window.                                 *)
(***************************************************************************)
\* the scan of a chromosome is over, the run of get_noisy_stripes on a
\* matrix without zero rows left out
WindowScanOver == sw.pc \in {"done", "raised"} /\ sw.error # "IndexError"

\* the break of api.py line 226 was taken: search_opt_window is done with
\* fewer statistics than windows
StoppedEarly ==
    sw.pc = "done" /\ Len(sw.mean_tad_sizes) < Len(sw.bins)

\* C29: the window scan of a chromosome stops early only when both
\* is_exp_tad_size_reached and is_exp_tad_cnt_reached are set (with at least
\* window_eps counts whose trailing deviation is below eps); in every other
\* case all the windows of the grid are evaluated.
C29_AllWindowsEvaluatedUnlessEarlyStop ==
    WindowScanOver =>
        \/ StoppedEarly /\ sw.is_exp_tad_size_reached
        \/ Len(sw.mean_tad_sizes) = Len(sw.bins)

\* C30: the statistics evaluation of search_opt_window at grid[0] and at
\* every later window completes and records the window's statistics: the
\* tuple calc_mean_tad_size returns has exactly the components that are
\* unpacked.
C30_StatisticsAreUnpacked ==
    /\ sw.pc # "idle" => sw.error # "ValueError"
    /\ WindowScanOver => Len(sw.mean_tad_sizes) = Len(sw.bins)
    /\ seg.path = "zero" =>
          Len(calc_mean_tad_size(seg.ret, filters, MaxIntertadSize, MaxTadSize,
                                 Resolution)) = UnpackTargets

====
